---- MODULE Spec2Model ----
(***************************************************************************)
(* accesslog.cpp: demultiplexer of a merged web server access log.  Each   *)
(* line "<domain> <access log entry>" read from standard input is appended *)
(* to ${PREFIX}/${2ND_LEVEL_DOMAIN}/logs/${YYYY}-${MM}${SUFFIX}/${DOMAIN}.  *)
(*                                                                         *)
(* A C++ string is a sequence of one-character strings; positions are      *)
(* 0-based as in the source, so str[pos] of the source is str[pos + 1].    *)
(***************************************************************************)
EXTENDS Integers, Sequences, FiniteSets, TLC

VARIABLES
    pc,           \* position of main / process_entry
    argv,         \* argv[1], or NoArg when argc = 1
    suffix,       \* static string suffix
    stdin,        \* lines of cin not read yet
    entry,        \* main: string entry
    domain,       \* process_entry: string domain
    access,       \* process_entry: string access
    log_time,     \* process_entry: datetime log_time
    log_dir,      \* process_entry: string log_dir
    log_file,     \* process_entry: the path handed to open(2)
    fd,           \* process_entry: int fd (the file it refers to, or NoFd)
    buf,          \* write_long: the bytes of buf not written yet
    dirs,         \* file system: the directories that exist
    files,        \* file system: content of every regular file
    cerr,         \* the diagnostics written to cerr
    status,       \* exit status of main, NoStatus while it runs
    what,         \* e.what() of the exception in flight, "" when none
    input,        \* history: the complete input stream
    processed,    \* history: the lines process_entry was called with
    dirs0,        \* history: dirs when the current line was read
    files0,       \* history: files when the current line was read
    failed,       \* history: a write(2) of the current line returned -1
    everfailed,   \* history: a write(2) of some line returned -1
    opened,       \* history: the file open(2) gave the current line, or NoFd
    nrec,         \* history: per file, its records at the start plus the
                  \* number of times open(2) returned it
    raised        \* history: the calls of process_entry that threw

vars == <<pc, argv, suffix, stdin, entry, domain, access, log_time, log_dir,
          log_file, fd, buf, dirs, files, cerr, status, what, input,
          processed, dirs0, files0, failed, everfailed, opened, nrec,
          raised>>

-----------------------------------------------------------------------------
(* Characters *)

Digit == {"0", "1", "2", "3", "4", "5", "6", "7", "8", "9"}

DigitVal(c) ==
    CASE c = "0" -> 0 [] c = "1" -> 1 [] c = "2" -> 2 [] c = "3" -> 3
      [] c = "4" -> 4 [] c = "5" -> 5 [] c = "6" -> 6 [] c = "7" -> 7
      [] c = "8" -> 8 [] c = "9" -> 9

DigitChar(n) ==
    CASE n = 0 -> "0" [] n = 1 -> "1" [] n = 2 -> "2" [] n = 3 -> "3"
      [] n = 4 -> "4" [] n = 5 -> "5" [] n = 6 -> "6" [] n = 7 -> "7"
      [] n = 8 -> "8" [] n = 9 -> "9"

\* isspace(3) in the C locale, as strtol(3) uses it
Space == {" ", "\t", "\n", "\r", "\f"}

\* the range a-z of the suffix filter
LowerCase == {"a", "b", "c", "d", "e", "f", "g", "h", "i", "j", "k", "l", "m",
              "n", "o", "p", "q", "r", "s", "t", "u", "v", "w", "x", "y", "z"}

\* string::substr(pos) and string::substr(pos, n)
substr(str, pos) == SubSeq(str, pos + 1, Len(str))

substrn(str, pos, n) ==
    SubSeq(str, pos + 1, IF pos + n > Len(str) THEN Len(str) ELSE pos + n)

-----------------------------------------------------------------------------
(* Decoder utilities *)

\* number of leading characters of str that belong to set
RECURSIVE Span(_, _)
Span(str, set) ==
    IF str = <<>> \/ Head(str) \notin set THEN 0 ELSE 1 + Span(Tail(str), set)

RECURSIVE DecValue(_, _)
DecValue(digits, acc) ==
    IF digits = <<>> THEN acc
    ELSE DecValue(Tail(digits), 10 * acc + DigitVal(Head(digits)))

\* strtol(decimal, &err, 10): white space, an optional sign, digits.  With no
\* digit nothing is converted and err is the start of the string.  The tokens
\* decoded have at most 5 characters, so a long never overflows.
strtol(decimal) ==
    LET body  == substr(decimal, Span(decimal, Space))
        neg   == body # <<>> /\ Head(body) = "-"
        num   == IF body # <<>> /\ Head(body) \in {"+", "-"}
                 THEN Tail(body) ELSE body
        n     == Span(num, Digit)
    IN  IF n = 0
        THEN [val |-> 0, rest |-> decimal]
        ELSE [val  |-> IF neg THEN 0 - DecValue(substrn(num, 0, n), 0)
                       ELSE DecValue(substrn(num, 0, n), 0),
              rest |-> substr(num, n)]

\* if ((err == NULL) || (*err != (char) 0)) throw invalid_argument
CheckEnd(r) ==
    IF r.rest # <<>>
    THEN [ok |-> FALSE, val |-> 0, what |-> "Not an integer"]
    ELSE [ok |-> TRUE, val |-> r.val, what |-> ""]

decDecode(decimal) == CheckEnd(strtol(decimal))

RECURSIVE EncodeNat(_)
EncodeNat(n) ==
    IF n < 10 THEN <<DigitChar(n)>>
    ELSE EncodeNat(n \div 10) \o <<DigitChar(n % 10)>>

\* ostringstream << long
decEncode(value) ==
    IF value < 0 THEN <<"-">> \o EncodeNat(0 - value) ELSE EncodeNat(value)

RECURSIVE PadTo(_, _)
PadTo(ret, num) == IF Len(ret) < num THEN PadTo(<<"0">> \o ret, num) ELSE ret

\* leadzero looping while (ret.length() < num - 1)
leadzero_short(str, num) ==
    IF Len(str) > 0 /\ Head(str) \notin Digit THEN str ELSE PadTo(str, num - 1)

leadzero(str, num) ==
    IF Len(str) > 0 /\ Head(str) \notin Digit THEN str ELSE PadTo(str, num)

MonthNames ==
    << <<"J","a","n">>, <<"F","e","b">>, <<"M","a","r">>, <<"A","p","r">>,
       <<"M","a","y">>, <<"J","u","n">>, <<"J","u","l">>, <<"A","u","g">>,
       <<"S","e","p">>, <<"O","c","t">>, <<"N","o","v">>, <<"D","e","c">> >>

monthDecode(month) ==
    IF \E m \in 1..12 : MonthNames[m] = month
    THEN [ok |-> TRUE, val |-> CHOOSE m \in 1..12 : MonthNames[m] = month,
          what |-> ""]
    ELSE [ok |-> FALSE, val |-> 0, what |-> "Invalid month"]

RECURSIVE find_first(_, _, _)
find_first(str, delim, start) ==
    IF start >= Len(str) THEN Len(str)
    ELSE IF str[start + 1] = delim THEN start
    ELSE find_first(str, delim, start + 1)

RECURSIVE find_until(_, _, _)
find_until(str, until, start) ==
    IF start >= Len(str) THEN Len(str)
    ELSE IF str[start + 1] # until THEN start
    ELSE find_until(str, until, start + 1)

-----------------------------------------------------------------------------
(* boost::tokenizer< char_separator< char> > *)

\* char_separator(dropped, "", keep_empty_tokens): the fields between the
\* dropped delimiters, empty ones included; one empty token for "".
RECURSIVE keep_empty_tokens(_, _, _)
keep_empty_tokens(str, dropped, tok) ==
    IF str = <<>> THEN <<tok>>
    ELSE IF Head(str) \in dropped
    THEN <<tok>> \o keep_empty_tokens(Tail(str), dropped, <<>>)
    ELSE keep_empty_tokens(Tail(str), dropped, Append(tok, Head(str)))

\* char_separator(dropped, "", drop_empty_tokens): the non-empty fields
drop_empty_tokens(str, dropped) ==
    SelectSeq(keep_empty_tokens(str, dropped, <<>>), LAMBDA t : t # <<>>)

split_domain(dom) == keep_empty_tokens(dom, {"."}, <<>>)

-----------------------------------------------------------------------------
(* Date & time signature *)

\* regex "\[../.../....:..:..:.. .....\]"; AnyChar stands for the regex's "."
AnyChar == ""

expression ==
    <<"[", AnyChar, AnyChar, "/", AnyChar, AnyChar, AnyChar, "/", AnyChar, AnyChar, AnyChar, AnyChar,
      ":", AnyChar, AnyChar, ":", AnyChar, AnyChar, ":", AnyChar, AnyChar, " ",
      AnyChar, AnyChar, AnyChar, AnyChar, AnyChar, "]">>

MatchAt(str, pos, expr) ==
    /\ pos + Len(expr) <= Len(str)
    /\ \A k \in 1..Len(expr) : expr[k] = AnyChar \/ str[pos + k] = expr[k]

\* regex_search(begin, end, match, expr, match_default): the position of
\* the leftmost match, NoMatch when there is none
NoMatch == 0 - 1

regex_search(str, expr) ==
    IF \E pos \in 0..Len(str) : MatchAt(str, pos, expr)
    THEN CHOOSE pos \in 0..Len(str) :
            /\ MatchAt(str, pos, expr)
            /\ \A q \in 0..(pos - 1) : ~MatchAt(str, q, expr)
    ELSE NoMatch

\* datetime res before any field is assigned
NoTime == [day |-> 0, month |-> 0, year |-> 0, hour |-> 0, minute |-> 0,
           second |-> 0, offset |-> 0]

\* the switch (pos) of extract_datetime, for the token at position pos
\* (0-based): the decoded field, or the exception thrown
DecodeToken(tok, pos) ==
    IF pos = 1 THEN monthDecode(tok)
    ELSE IF pos <= 6 THEN decDecode(tok)
    ELSE [ok |-> FALSE, val |-> 0, what |-> "Invalid date & time format"]

\* the tokens of match[0], split by all separating characters; none when
\* the expression matches nowhere (at = NoMatch)
datetime_tokens(str, at) ==
    IF at = NoMatch THEN <<>>
    ELSE drop_empty_tokens(substrn(str, at, Len(expression)),
                           {"[", "/", ":", " ", "]"})

\* the loop over the decoded tokens dec: the first exception thrown, or the
\* date & time, valid once the token at position 6 is decoded
datetime_of(dec) ==
    LET bad == {i \in 1..Len(dec) : ~dec[i].ok}
    IN  IF bad # {}
        THEN [ok |-> FALSE, res |-> NoTime,
              what |-> dec[CHOOSE i \in bad : \A j \in bad : i <= j].what]
        ELSE IF Len(dec) = 7
        THEN [ok |-> TRUE,
              res |-> [day |-> dec[1].val, month |-> dec[2].val,
                       year |-> dec[3].val, hour |-> dec[4].val,
                       minute |-> dec[5].val, second |-> dec[6].val,
                       offset |-> dec[7].val],
              what |-> ""]
        ELSE [ok |-> FALSE, res |-> NoTime,
              what |-> "Date & time not found or not complete"]

decode_tokens(tokens) ==
    datetime_of([i \in 1..Len(tokens) |-> DecodeToken(tokens[i], i - 1)])

extract_datetime(str) ==
    decode_tokens(datetime_tokens(str, regex_search(str, expression)))

-----------------------------------------------------------------------------
(* File system: absolute paths, no symbolic links.  A directory or file is  *)
(* named by its canonical path; the root directory is the empty path.       *)

Root == <<>>

\* the directory holding the directory dir
RECURSIVE Parent(_)
Parent(dir) ==
    IF dir = <<>> THEN <<>>
    ELSE IF dir[Len(dir)] = "/" THEN SubSeq(dir, 1, Len(dir) - 1)
    ELSE Parent(SubSeq(dir, 1, Len(dir) - 1))

\* path_resolution(7) of the components comps from directory cur among the
\* directories ds: the directory of the last component and its name; name
\* is empty when the path names a directory itself (".", "..", "dir/")
RECURSIVE Walk(_, _, _)
Walk(comps, cur, ds) ==
    IF comps = <<>> THEN [ok |-> TRUE, dir |-> cur, name |-> <<>>]
    ELSE IF Head(comps) \in {<<>>, <<".">>}
    THEN Walk(Tail(comps), cur, ds)
    ELSE IF Head(comps) = <<".", ".">>
    THEN Walk(Tail(comps), Parent(cur), ds)
    ELSE IF Tail(comps) = <<>>
    THEN [ok |-> TRUE, dir |-> cur, name |-> Head(comps)]
    ELSE IF (cur \o <<"/">> \o Head(comps)) \in ds
    THEN Walk(Tail(comps), cur \o <<"/">> \o Head(comps), ds)
    ELSE [ok |-> FALSE, dir |-> cur, name |-> <<>>]

Resolve(path, ds) == Walk(keep_empty_tokens(path, {"/"}, <<>>), Root, ds)

Target(r) == r.dir \o <<"/">> \o r.name

\* mkdir(2): the directories afterwards.  It fails, changing nothing, when
\* the parent is missing, the name exists, or permission is denied.
mkdir_at(r, ds, fs, eacces) ==
    IF r.ok /\ r.name # <<>> /\ ~eacces
       /\ Target(r) \notin ds /\ Target(r) \notin DOMAIN fs
    THEN ds \cup {Target(r)}
    ELSE ds

mkdir(path, ds, fs, eacces) == mkdir_at(Resolve(path, ds), ds, fs, eacces)

NoFd == <<"-", "1">>

\* open(2) with O_WRONLY | O_CREAT | O_APPEND: the file the descriptor
\* refers to, or NoFd (missing parent, a directory, permission denied)
open_at(r, ds, eacces) ==
    IF r.ok /\ r.name # <<>> /\ ~eacces /\ Target(r) \notin ds
    THEN Target(r)
    ELSE NoFd

open(path, ds, fs, eacces) == open_at(Resolve(path, ds), ds, eacces)

\* O_CREAT: the files after open(2) returned descriptor f
Created(f, fs) ==
    IF f = NoFd \/ f \in DOMAIN fs THEN fs ELSE (f :> <<>>) @@ fs

\* write(2) through a descriptor opened without O_APPEND
Appended_at_start(f, data, fs) == [fs EXCEPT ![f] = data]

\* O_APPEND: the files after write(2) stored the bytes data through f
Appended(f, data, fs) == [fs EXCEPT ![f] = @ \o data]

-----------------------------------------------------------------------------
(* process_entry up to the system calls *)

prefix == <<"/","h","o","m","e","/","h","t","t","p","d">>

\* process_entry ignores the line: the locals keep their initial values
Ignored ==
    [kind |-> "ignored", domain |-> <<>>, access |-> <<>>,
     log_time |-> NoTime, log_dir |-> <<>>, log_file |-> <<>>, what |-> ""]

\* string log_dir = prefix + "/" + ... + suffix
LogDir(domain_parts, size, year, month, sfx) ==
    prefix \o <<"/">> \o domain_parts[size - 1]
           \o <<".">> \o domain_parts[size]
           \o <<"/", "l", "o", "g", "s", "/">>
           \o leadzero(decEncode(year), 4)
           \o <<"-">> \o leadzero(decEncode(month), 2)
           \o sfx

\* store_entry going on with a date & time that is not valid
store_entry_unchecked(dom, domain_parts, acc, dt, dir) ==
    [kind |-> "routed", domain |-> dom, access |-> acc,
     log_time |-> dt.res, log_dir |-> dir,
     log_file |-> dir \o <<"/">> \o dom, what |-> ""]

\* process_entry from extract_datetime on: dt is what extract_datetime
\* returned or threw for the log entry acc
store_entry(dom, domain_parts, acc, dt, dir) ==
    IF ~dt.ok
    THEN [Ignored EXCEPT !.kind = "thrown", !.domain = dom, !.access = acc,
                         !.what = dt.what]
    ELSE [kind |-> "routed", domain |-> dom, access |-> acc,
          log_time |-> dt.res, log_dir |-> dir,
          log_file |-> dir \o <<"/">> \o dom, what |-> ""]

route_entry(dom, domain_parts, acc, dt, sfx) ==
    store_entry(dom, domain_parts, acc, dt,
                LogDir(domain_parts, Len(domain_parts), dt.res.year,
                       dt.res.month, sfx))

\* split_entry taking the log entry from the domain name on
split_entry_from_domain(str, dom, log_start, sfx) ==
    IF ~(Len(split_domain(dom)) >= 2)
    THEN [Ignored EXCEPT !.domain = dom]
    ELSE route_entry(dom, split_domain(dom),
                     substr(str, find_until(str, " ", 0)),
                     extract_datetime(substr(str, find_until(str, " ", 0))),
                     sfx)

\* split_entry extracting the date & time before it counts the parts
split_entry_stamp_first(str, dom, log_start, sfx) ==
    IF extract_datetime(substr(str, log_start)).ok
       /\ ~(Len(split_domain(dom)) >= 2)
    THEN [Ignored EXCEPT !.domain = dom]
    ELSE route_entry(dom, split_domain(dom), substr(str, log_start),
                     extract_datetime(substr(str, log_start)), sfx)

\* the domain name dom is not empty: split it, take the log entry
split_entry(str, dom, log_start, sfx) ==
    IF ~(Len(split_domain(dom)) >= 2)
    THEN [Ignored EXCEPT !.domain = dom]
    ELSE route_entry(dom, split_domain(dom), substr(str, log_start),
                     extract_datetime(substr(str, log_start)), sfx)

\* the outcome of process_entry(str) before mkdir(2): the line is ignored,
\* extract_datetime throws, or the log directory and file are computed
process_entry(str, sfx) ==
    LET domain_start == find_until(str, " ", 0)
        domain_end   == find_first(str, " ", domain_start)
        log_start    == find_until(str, " ", domain_end)
    IN  IF ~(log_start < Len(str) /\ domain_start < domain_end)
        THEN Ignored
        ELSE split_entry(str,
                         substrn(str, domain_start, domain_end - domain_start),
                         log_start, sfx)

-----------------------------------------------------------------------------
(* Bounds *)

\* lines of an input stream
MaxLines == 2

\* write(2) may stop short only within the first MaxShort bytes of a buffer
MaxShort == 2

-----------------------------------------------------------------------------
(* Inputs: command lines, file systems before the run, input lines *)

Program == <<"a","c","c","e","s","s","l","o","g">>

Args == {<<Program>>, <<Program, <<"b","k">>>>, <<Program, <<>> >>,
         <<Program, <<"b","1","k">>>>, <<Program, <<"K","b">>>>}

\* the command lines of the streams
StreamArgs == {<<Program>>, <<Program, <<"b","k">>>>}

Home     == <<"/","h","o","m","e">>
BcDir    == <<"/","h","o","m","e","/","h","t","t","p","d","/","b",".","c">>
BcLogs   == <<"/","h","o","m","e","/","h","t","t","p","d","/","b",".","c","/","l","o","g","s">>
BcMonth  == <<"/","h","o","m","e","/","h","t","t","p","d","/","b",".","c","/","l","o","g","s","/","2","0","2","0","-","0","3">>
BcFile   == <<"/","h","o","m","e","/","h","t","t","p","d","/","b",".","c","/","l","o","g","s","/","2","0","2","0","-","0","3","/","b",".","c">>
OldEntry == <<"[","0","9","/","M","a","r","/","2","0","2","0",":","2","3",":","5","9",":","5","9"," ","+","0","0","0","0","]"," ","G","E","T"," ","/">> \o <<"\n">>

\* no domain directory; the logs directory of b.c; a month already begun
Disks ==
    { [dirs |-> {Root, Home, prefix}, files |-> <<>>],
      [dirs |-> {Root, Home, prefix, BcDir, BcLogs}, files |-> <<>>],
      [dirs |-> {Root, Home, prefix, BcDir, BcLogs, BcMonth},
       files |-> (BcFile :> OldEntry)] }

Stamp(day, sep, mon, year, hms, off) ==
    <<"[">> \o day \o sep \o mon \o sep \o year \o <<":">> \o hms
            \o <<" ">> \o off \o <<"]">>

Hms == <<"1","4",":","2","2",":","0","1">>

GoodStamps ==
    { Stamp(<<"1","0">>, <<"/">>, <<"M","a","r">>, <<"2","0","2","0">>, Hms, <<"+","0","0","0","0">>),
      Stamp(<<"3","1">>, <<"/">>, <<"D","e","c">>, <<"0","0","0","7">>, Hms, <<"-","0","1","3","0">>),
      Stamp(<<"1","0">>, <<"/">>, <<"M","a","r">>, <<"-","0","2","0">>, Hms, <<"+","0","0","0","0">>),
      Stamp(<<"1","0">>, <<"/">>, <<"J","a","n">>, <<" ","2","0","7">>, Hms, <<"+","0","1","0","0">>),
      Stamp(<<"9","9">>, <<"/">>, <<"F","e","b">>, <<"2","0","2","0">>, <<"9","9",":","9","9",":","9","9">>, <<"+","9","9","9","9">>) }

BadStamps ==
    { Stamp(<<"1","0">>, <<"-">>, <<"M","a","r">>, <<"2","0","2","0">>, Hms, <<"+","0","0","0","0">>),
      Stamp(<<"1","0">>, <<"/">>, <<"m","a","r">>, <<"2","0","2","0">>, Hms, <<"+","0","0","0","0">>),
      Stamp(<<"1","x">>, <<"/">>, <<"M","a","r">>, <<"2","0","2","0">>, Hms, <<"+","0","0","0","0">>),
      Stamp(<<"1","0">>, <<"/">>, <<"M","a","r">>, <<"2","0",":","0">>, Hms, <<"+","0","0","0","0">>),
      Stamp(<<"1","0">>, <<"/">>, <<"M","a","r">>, <<"2","0","2","0">>, Hms, <<" "," "," "," "," ">>) }

\* the access log entry: a date & time signature alone or inside other text
Tails ==
    (GoodStamps \cup BadStamps)
    \cup {<<"x"," ">> \o s \o <<" ","G","E","T"," ","/">> : s \in GoodStamps \cup BadStamps}
    \cup {<<"G","E","T"," ","/">>}

Domains == {<<"h","o","s","t">>, <<"b",".","c">>, <<"a",".","b",".","c">>, <<"b",".">>, <<".",".">>, <<".",".","/","b",".","c">>, <<".",".","/",".",".","/",".",".","/",".",".","/","b",".","c">>}

ExampleLine ==
    <<" "," ","e","x","a","m","p","l","e",".","c","o","m"," ","[","1","0","-","M","a","r","-","2","0","2","0",":","1","4",":","2","2",":","0","1"," ","+","0","0","0","0","]"," ","G","E","T"," ","/","i","n","d","e","x",".","h","t","m","l"," ","2","0","0">>

\* lines of one call of process_entry
EntryLines ==
    {d \o <<" ">> \o t : d \in Domains, t \in Tails}
    \cup {<<" "," ">> \o d \o <<" "," ">> \o t : d \in Domains, t \in Tails}
    \cup Domains \cup {d \o <<" "," ">> : d \in Domains}
    \cup {<<>>, <<" "," "," ">>, ExampleLine}

\* lines of a stream: two files of one directory, an error, an ignored line
StreamLines ==
    { <<"b",".","c"," ">> \o Stamp(<<"1","0">>, <<"/">>, <<"M","a","r">>, <<"2","0","2","0">>, Hms, <<"+","0","0","0","0">>),
      <<"a",".","b",".","c"," "," ">> \o Stamp(<<"1","1">>, <<"/">>, <<"M","a","r">>, <<"2","0","2","0">>, Hms, <<"+","0","0","0","0">>),
      <<"b",".","c"," ","G","E","T"," ","/">>,
      <<"h","o","s","t"," ","x">> }

RECURSIVE SeqsUpTo(_, _)
SeqsUpTo(S, n) ==
    IF n = 0 THEN {<<>>}
    ELSE SeqsUpTo(S, n - 1)
         \cup {Append(s, x) : s \in {t \in SeqsUpTo(S, n - 1) : Len(t) = n - 1},
                              x \in S}

Streams == SeqsUpTo(StreamLines, MaxLines)

\* number of newline characters, that is of records, of a file
Records(content) ==
    Cardinality({i \in 1..Len(content) : content[i] = "\n"})

-----------------------------------------------------------------------------
(* The program *)

NoStatus == 0 - 1

InitWith(args, disks, streams) ==
    /\ pc = "main"
    /\ argv \in args
    /\ suffix = <<>>
    /\ input \in streams
    /\ stdin = input
    /\ entry = <<>>
    /\ domain = <<>> /\ access = <<>> /\ log_time = NoTime
    /\ log_dir = <<>> /\ log_file = <<>>
    /\ fd = NoFd /\ buf = <<>>
    /\ \E d \in disks : dirs = d.dirs /\ files = d.files
    /\ cerr = <<>>
    /\ status = NoStatus
    /\ what = ""
    /\ processed = <<>>
    /\ dirs0 = dirs /\ files0 = files
    /\ failed = FALSE /\ everfailed = FALSE
    /\ opened = NoFd
    /\ nrec = [f \in DOMAIN files |-> Records(files[f])]
    /\ raised = 0

Init == InitWith(StreamArgs, Disks, Streams)

InitEntry == InitWith(Args, Disks, {<<line>> : line \in EntryLines})

\* regex "[a-z]*" searched in arg: the leftmost match starts at position 0
\* and is the longest run of lower case letters there, possibly empty
filter(arg) == substrn(arg, 0, Span(arg, LowerCase))

\* main: get optional suffix
Main ==
    /\ pc = "main"
    /\ suffix' = IF Len(argv) > 1 THEN <<".">> \o filter(argv[2]) ELSE suffix
    /\ pc' = "getline"
    /\ UNCHANGED <<argv, stdin, entry, domain, access, log_time, log_dir,
                   log_file, fd, buf, dirs, files, cerr, status, what, input,
                   processed, dirs0, files0, failed, everfailed, opened, nrec,
                   raised>>

\* while (getline(cin, entry, '\n')): a line was read
GetLine ==
    /\ pc = "getline"
    /\ stdin # <<>>
    /\ entry' = Head(stdin)
    /\ stdin' = Tail(stdin)
    /\ pc' = "process_entry"
    /\ domain' = <<>> /\ access' = <<>> /\ log_time' = NoTime
    /\ log_dir' = <<>> /\ log_file' = <<>>
    /\ dirs0' = dirs /\ files0' = files
    /\ failed' = FALSE /\ opened' = NoFd
    /\ UNCHANGED <<argv, suffix, fd, buf, dirs, files, cerr, status, what,
                   input, processed, everfailed, nrec,
                   raised>>

\* while (getline(cin, entry, '\n')): end of input; return 0
EndOfInput ==
    /\ pc = "getline"
    /\ stdin = <<>>
    /\ status' = 0
    /\ pc' = "exit"
    /\ UNCHANGED <<argv, suffix, stdin, entry, domain, access, log_time,
                   log_dir, log_file, fd, buf, dirs, files, cerr, what, input,
                   processed, dirs0, files0, failed, everfailed, opened, nrec,
                   raised>>

\* the locals of process_entry as the outcome r sets them
Locals(r) ==
    /\ domain' = r.domain /\ access' = r.access /\ log_time' = r.log_time
    /\ log_dir' = r.log_dir /\ log_file' = r.log_file
    /\ processed' = Append(processed, entry)

\* process_entry: empty domain, no log entry, or a domain of one part
Ignore(r) == r.kind = "ignored" /\ Locals(r)

ProcessEntry_Ignore ==
    /\ pc = "process_entry"
    /\ Ignore(process_entry(entry, suffix))
    /\ pc' = "returned"
    /\ UNCHANGED <<argv, suffix, stdin, entry, fd, buf, dirs, files, cerr,
                   status, what, input, dirs0, files0, failed, everfailed,
                   opened, nrec,
                   raised>>

\* process_entry: extract_datetime throws invalid_argument
Throw(r) ==
    /\ r.kind = "thrown"
    /\ Locals(r)
    /\ what' = r.what
    /\ raised' = raised + 1

ProcessEntry_Throw ==
    /\ pc = "process_entry"
    /\ Throw(process_entry(entry, suffix))
    /\ pc' = "catch"
    /\ UNCHANGED <<argv, suffix, stdin, entry, fd, buf, dirs, files, cerr,
                   status, input, dirs0, files0, failed, everfailed, opened,
                   nrec>>

\* process_entry: mkdir(2) of the log directory, open(2) of the domain log;
\* either may be denied
\* if (fd >= 0): f is what open(2) returned
Opened(r, f) ==
    /\ fd' = f
    /\ opened' = f
    /\ files' = Created(f, files)
    /\ nrec' = IF f = NoFd THEN nrec
               ELSE IF f \in DOMAIN nrec THEN [nrec EXCEPT ![f] = @ + 1]
               ELSE (f :> 1) @@ nrec
    /\ buf' = IF f = NoFd THEN <<>> ELSE r.access
    /\ pc' = IF f = NoFd THEN "returned" ELSE "write_access"

\* made are the directories after mkdir(2)
Made(r, made, denied) ==
    /\ dirs' = made
    /\ Opened(r, open(r.log_file, made, files, denied))

Open(r) ==
    /\ r.kind = "routed"
    /\ Locals(r)
    /\ \E denied \in SUBSET {"mkdir", "open"} :
          Made(r, mkdir(r.log_dir, dirs, files, "mkdir" \in denied),
               "open" \in denied)

ProcessEntry_Open ==
    /\ pc = "process_entry"
    /\ Open(process_entry(entry, suffix))
    /\ UNCHANGED <<argv, suffix, stdin, entry, cerr, status, what, input,
                   dirs0, files0, failed, everfailed,
                   raised>>

\* what write(2) may return for the left bytes still to write of total
WriteResults(total, left) ==
    {0 - 1, left} \cup {n \in 1..(left - 1) : (total - left) + n <= MaxShort}

\* write_long: one turn of its loop on a buffer of total bytes; to is where
\* process_entry continues once write_long returns, with next to write
write_long(total, to, next) ==
    \E written \in WriteResults(total, Len(buf)) :
        IF written < 0
        THEN /\ failed' = TRUE /\ everfailed' = TRUE
             /\ files' = files
             /\ buf' = next /\ pc' = to
        ELSE /\ UNCHANGED <<failed, everfailed>>
             /\ files' = Appended(fd, SubSeq(buf, 1, written), files)
             /\ IF written = Len(buf)
                THEN buf' = next /\ pc' = to
                ELSE buf' = SubSeq(buf, written + 1, Len(buf)) /\ pc' = pc

\* write_long(fd, access.c_str(), access.length())
StoreEntry ==
    /\ pc = "write_access"
    /\ write_long(Len(access), "write_newline", <<"\n">>)
    /\ UNCHANGED <<argv, suffix, stdin, entry, domain, access, log_time,
                   log_dir, log_file, fd, dirs, cerr, status, what, input,
                   processed, dirs0, files0, opened, nrec,
                   raised>>

\* write_long(fd, "\n", 1)
StoreNewline ==
    /\ pc = "write_newline"
    /\ write_long(1, "close", <<>>)
    /\ UNCHANGED <<argv, suffix, stdin, entry, domain, access, log_time,
                   log_dir, log_file, fd, dirs, cerr, status, what, input,
                   processed, dirs0, files0, opened, nrec,
                   raised>>

\* close(fd); process_entry returns
Close ==
    /\ pc = "close"
    /\ fd' = NoFd
    /\ pc' = "returned"
    /\ UNCHANGED <<argv, suffix, stdin, entry, domain, access, log_time,
                   log_dir, log_file, buf, dirs, files, cerr, status, what,
                   input, processed, dirs0, files0, failed, everfailed,
                   opened, nrec,
                   raised>>

\* a catch that reports and leaves the loop
Catch_and_stop ==
    /\ pc = "catch"
    /\ cerr' = Append(cerr, what)
    /\ what' = ""
    /\ status' = 1
    /\ pc' = "exit"
    /\ UNCHANGED <<argv, suffix, stdin, entry, domain, access, log_time,
                   log_dir, log_file, fd, buf, dirs, files, input,
                   processed, dirs0, files0, failed, everfailed, opened, nrec,
                   raised>>

\* catch (std::exception & e): report on cerr, go on with the next line
Catch ==
    /\ pc = "catch"
    /\ cerr' = Append(cerr, what)
    /\ what' = ""
    /\ pc' = "getline"
    /\ UNCHANGED <<argv, suffix, stdin, entry, domain, access, log_time,
                   log_dir, log_file, fd, buf, dirs, files, status, input,
                   processed, dirs0, files0, failed, everfailed, opened, nrec,
                   raised>>

\* process_entry returned: end of the try block
EndTry ==
    /\ pc = "returned"
    /\ pc' = "getline"
    /\ UNCHANGED <<argv, suffix, stdin, entry, domain, access, log_time,
                   log_dir, log_file, fd, buf, dirs, files, cerr, status,
                   what, input, processed, dirs0, files0, failed, everfailed,
                   opened, nrec,
                   raised>>

Next ==
    \/ Main
    \/ GetLine
    \/ EndOfInput
    \/ ProcessEntry_Ignore
    \/ ProcessEntry_Throw
    \/ ProcessEntry_Open
    \/ StoreEntry
    \/ StoreNewline
    \/ Close
    \/ Catch
    \/ EndTry

\* short streams of lines
Spec == Init /\ [][Next]_vars

\* one line out of many
SpecEntry == InitEntry /\ [][Next]_vars

-----------------------------------------------------------------------------
(* Properties: what a line is, read without the program's own functions *)

RECURSIVE SkipSpaces(_)
SkipSpaces(str) ==
    IF str # <<>> /\ Head(str) = " " THEN SkipSpaces(Tail(str)) ELSE str

RECURSIVE SkipWord(_)
SkipWord(str) ==
    IF str # <<>> /\ Head(str) # " " THEN SkipWord(Tail(str)) ELSE str

\* the line from the first character of the domain name on
FromDomain(line) == SkipSpaces(line)

\* the domain field: the first run of characters other than spaces
DomainOf(line) ==
    SubSeq(FromDomain(line), 1,
           Len(FromDomain(line)) - Len(SkipWord(FromDomain(line))))

\* the remaining text: the line from the first character after the domain
\* field that is not a space
AfterDomain(line) == SkipSpaces(SkipWord(SkipSpaces(line)))

\* number of dot-separated labels of a non-empty domain field
Labels(dom) == 1 + Cardinality({i \in 1..Len(dom) : dom[i] = "."})

\* position of the last dot of str, 0 when it has none
LastDot(str) ==
    IF \E i \in 1..Len(str) : str[i] = "."
    THEN CHOOSE i \in 1..Len(str) :
            str[i] = "." /\ \A j \in (i + 1)..Len(str) : str[j] # "."
    ELSE 0

LastLabel(dom) == SubSeq(dom, LastDot(dom) + 1, Len(dom))

SecondToLastLabel(dom) == LastLabel(SubSeq(dom, 1, LastDot(dom) - 1))

IsPrefix(a, b) == Len(a) <= Len(b) /\ SubSeq(b, 1, Len(a)) = a

\* content of file f when the current line was read
Old(f) == IF f \in DOMAIN files0 THEN files0[f] ELSE <<>>

\* what the current line added to file f
Delta(f) == SubSeq(files[f], Len(Old(f)) + 1, Len(files[f]))

\* process_entry computed a destination for the current line
Routed == log_file # <<>>

\* every file is as it was when the line was read, but f which has record
\* appended
OnlyAppended(f, record) ==
    /\ DOMAIN files = DOMAIN files0 \cup {f}
    /\ files[f] = Old(f) \o record
    /\ \A g \in DOMAIN files0 : g # f => files[g] = files0[g]

Newline == <<"\n">>

Logs == <<"/","l","o","g","s","/">>

-----------------------------------------------------------------------------
(* C1 *)

\* C1 as stated: whenever process_entry has returned from a line it routed
\* (a domain of 2 or more labels, a log entry with a valid date & time),
\* exactly one record, the log entry and a newline, was appended to the
\* destination file, whatever directories existed; stated here even for the
\* calls no write(2) of which failed.
C1_AppendsWhateverExists ==
    (pc = "returned" /\ Routed /\ ~failed)
        => /\ opened # NoFd
           /\ OnlyAppended(opened, access \o Newline)

\* C1 amended: a routed line whose destination file open(2) opens has one
\* record appended to that file and to no other when no write(2) fails;
\* whatever happens the previous content of every file stays a prefix of its
\* content; a file that was opened N times over a run without a failed write
\* holds N more records; and when the log directory cannot be reached
\* (mkdir(2) creates the month directory only, not its parents) the call
\* changes nothing.
C1_AppendsWhenOpened ==
    /\ (pc = "returned" /\ Routed /\ opened # NoFd /\ ~failed)
          => OnlyAppended(opened, access \o Newline)
    /\ \A f \in DOMAIN files0 :
          f \in DOMAIN files /\ IsPrefix(files0[f], files[f])
    /\ (pc \in {"getline", "exit"} /\ ~everfailed)
          => \A f \in DOMAIN files :
                f \in DOMAIN nrec /\ Records(files[f]) = nrec[f]
    /\ (pc = "returned" /\ Routed /\ ~Resolve(log_dir, dirs0).ok)
          => opened = NoFd /\ files = files0 /\ dirs = dirs0

\* two lines of a stream were appended, in order, after the old record
C1_Witness ==
    /\ pc = "exit" /\ ~everfailed /\ Len(processed) = 2
    /\ BcFile \in DOMAIN files
    /\ files[BcFile] = OldEntry \o AfterDomain(processed[1]) \o Newline
                                \o AfterDomain(processed[2]) \o Newline

-----------------------------------------------------------------------------
(* C2 *)

Digits2(n) == <<DigitChar(n \div 10), DigitChar(n % 10)>>

Digits4(n) == Digits2(n \div 100) \o Digits2(n % 100)

\* a negative year: the minus sign and the digits, not padded
Unpadded(n) ==
    <<"-">> \o (IF n < 10 THEN <<DigitChar(n)>>
                ELSE IF n < 100 THEN Digits2(n)
                ELSE <<DigitChar(n \div 100)>> \o Digits2(n % 100))

DomainDir(line) ==
    prefix \o <<"/">> \o SecondToLastLabel(DomainOf(line)) \o <<".">>
           \o LastLabel(DomainOf(line)) \o Logs

-----------------------------------------------------------------------------
(* C3 *)

\* the file the current line opened holds a truncated record: a prefix of
\* record, then the newline or nothing
Truncated(f, record) ==
    \E n \in 0..Len(record) :
        \/ OnlyAppended(f, SubSeq(record, 1, n))
        \/ OnlyAppended(f, SubSeq(record, 1, n) \o Newline)

\* C3 as stated: the text appended is the line from the first character of
\* the domain name to its end, and a newline; stated here for the calls no
\* write(2) of which failed.
C3_FromDomainName ==
    (pc = "returned" /\ opened # NoFd /\ ~failed)
        => OnlyAppended(opened, FromDomain(entry) \o Newline)

\* C3 amended: the text appended is the line from the first character after
\* the domain name that is not a space to its end (the domain name and the
\* spaces around it are not stored) and a newline; when a write(2) fails
\* what is appended is a prefix of that text, with or without the newline.
C3_AfterDomainName ==
    /\ (pc = "returned" /\ opened # NoFd /\ ~failed)
          => OnlyAppended(opened, AfterDomain(entry) \o Newline)
    /\ (pc = "returned" /\ opened # NoFd /\ failed)
          => Truncated(opened, AfterDomain(entry))

\* a line with spaces before the domain and two after it was stored
C3_Witness ==
    /\ pc = "returned" /\ opened # NoFd /\ ~failed
    /\ Len(entry) > 2 /\ entry[1] = " "
    /\ Len(AfterDomain(entry)) + Len(DomainOf(entry)) + 4 = Len(entry)

-----------------------------------------------------------------------------
(* C4 *)

Sign == {"+", "-"}

\* [DD-Mon-YYYY:HH:MM:SS +offset] with decimal fields
DashShape ==
    <<{"["}, Digit, Digit, {"-"}, LowerCase \cup {"J", "F", "M", "A", "S",
      "O", "N", "D"}, LowerCase, LowerCase, {"-"}, Digit, Digit, Digit, Digit,
      {":"}, Digit, Digit, {":"}, Digit, Digit, {":"}, Digit, Digit, {" "},
      Sign, Digit, Digit, Digit, Digit, {"]"}>>

DashStampAt(str, pos) ==
    /\ pos + Len(DashShape) <= Len(str)
    /\ \A k \in 1..Len(DashShape) : str[pos + k] \in DashShape[k]
    /\ \E m \in 1..12 : SubSeq(str, pos + 5, pos + 7) = MonthNames[m]

HasDashStamp(str) == \E pos \in 0..Len(str) : DashStampAt(str, pos)

ExampleDir == <<"/","h","o","m","e","/","h","t","t","p","d","/","e","x","a","m","p","l","e",".","c","o","m","/","l","o","g","s","/","2","0","2","0","-","0","3">>

\* C4: extract_datetime succeeds on every text that holds a date & time of
\* the shape [DD-Mon-YYYY:HH:MM:SS +offset], its fields separated by "-",
\* and the example line is routed into /home/httpd/example.com/logs/2020-03.
C4_DashSeparated ==
    /\ pc = "catch" => ~HasDashStamp(access)
    /\ (entry = ExampleLine /\ Len(argv) = 1 /\ pc \in {"returned", "catch"})
          => log_dir = ExampleDir

-----------------------------------------------------------------------------
(* C5 *)

\* no domain field, no remaining text, or a domain of fewer than 2 labels
Discarded(line) ==
    \/ DomainOf(line) = <<>>
    \/ AfterDomain(line) = <<>>
    \/ Labels(DomainOf(line)) < 2

\* C5: for such a line process_entry creates no directory, writes no file
\* and raises no error, whatever else the line holds.
C5_SilentDiscard ==
    Discarded(entry) =>
        /\ pc \notin {"catch", "write_access", "write_newline", "close"}
        /\ what = ""
        /\ dirs = dirs0 /\ files = files0
        /\ opened = NoFd /\ ~Routed

\* a bare host name followed by a malformed date & time was discarded
C5_Witness ==
    /\ pc = "returned"
    /\ DomainOf(entry) = <<"h","o","s","t">>
    /\ \E s \in BadStamps : AfterDomain(entry) = s

-----------------------------------------------------------------------------
(* C6 *)

\* a domain of 2 or more labels and remaining text with no date & time
\* that extract_datetime accepts
Unstamped(line) ==
    /\ ~Discarded(line)
    /\ ~extract_datetime(AfterDomain(line)).ok

\* C6: for such a line process_entry raises an error to its caller and
\* leaves the file system as it was.
C6_ErrorLeavesDiskAlone ==
    (Unstamped(entry) /\ pc # "process_entry") =>
        /\ pc \in {"catch", "getline", "exit"}
        /\ pc = "catch" => what # ""
        /\ pc # "catch" => cerr # <<>>
        /\ dirs = dirs0 /\ files = files0
        /\ opened = NoFd /\ ~Routed

\* a date & time of more than 7 tokens was refused
C6_Witness ==
    /\ pc = "catch" /\ Unstamped(entry)
    /\ what = "Invalid date & time format"

-----------------------------------------------------------------------------
(* C7 *)

\* a line with a domain of 2 or more labels and no date & time
Thrown(line) ==
    /\ ~Discarded(line)
    /\ "[" \notin {line[i] : i \in 1..Len(line)}

\* C7: the lines are processed once each and in input order; a line that
\* raises an error gives one diagnostic and changes no file, and the lines
\* after it are processed; main returns only at the end of input, with 0.
C7_EveryLineOnce ==
    /\ IsPrefix(processed, input)
    /\ Len(processed) + Len(stdin) + (IF pc = "process_entry" THEN 1 ELSE 0)
          = Len(input)
    /\ Len(cerr) + (IF pc = "catch" THEN 1 ELSE 0) = raised
    /\ pc = "catch" => dirs = dirs0 /\ files = files0
    /\ (status # NoStatus) = (pc = "exit")
    /\ pc = "exit" =>
          /\ status = 0 /\ stdin = <<>> /\ processed = input
          /\ Len(cerr) >= Cardinality({i \in 1..Len(input) : Thrown(input[i])})

\* the first line raised an error and the second was stored
C7_Witness ==
    /\ pc = "exit" /\ Len(input) = 2
    /\ Thrown(input[1]) /\ Len(cerr) = 1
    /\ opened # NoFd /\ ~failed
    /\ Delta(opened) = AfterDomain(input[2]) \o Newline

-----------------------------------------------------------------------------
(* C8 *)

\* C8: whenever process_entry has returned, what it appended to a file is a
\* whole record and its newline, or nothing, also when a write(2) failed
\* or stopped short.
C8_WholeRecords ==
    (pc = "returned" /\ opened # NoFd)
        => Delta(opened) \in {<<>>, access \o Newline}

-----------------------------------------------------------------------------
(* C9 *)

\* C9: after startup the suffix is "." and the token of lower case letters
\* when an argument is given and that token is not empty, and is empty in
\* every other case.
C9_SuffixOrNothing ==
    pc # "main" =>
        suffix = IF Len(argv) > 1 /\ filter(argv[2]) # <<>>
                 THEN <<".">> \o filter(argv[2])
                 ELSE <<>>

-----------------------------------------------------------------------------
(* C10 *)

\* C10: the file process_entry opens lies directly inside the month
\* directory it computed, under prefix; the labels of the directory are
\* not empty and the domain is a plain file name.
C10_InsideMonthDirectory ==
    opened # NoFd =>
        /\ Resolve(log_dir, dirs).ok
        /\ Parent(opened) = Target(Resolve(log_dir, dirs))
        /\ IsPrefix(prefix \o <<"/">>, opened)
        /\ "/" \notin {domain[i] : i \in 1..Len(domain)}

====
